---- MODULE Spec2Model ----
(***************************************************************************)
(* The Drawer component of src/react/Drawer.tsx as a state machine: the    *)
(* hook state of useMenuState and useLockScroll, the passive effect of     *)
(* useLockScroll with its cleanup, the inline styles it writes to          *)
(* documentElement and body, the window scroll offset and the transition   *)
(* timers started by setMenuOpen.                                          *)
(*                                                                         *)
(* React scheduling: the state setters called by one handler are applied   *)
(* in one render; a render happens only when some state value changed; a   *)
(* passive effect (useEffect) runs after the render that scheduled it and  *)
(* at the latest right before the next render; an effect whose deps        *)
(* changed first runs the cleanup its previous run returned.               *)
(***************************************************************************)
EXTENDS Integers, Sequences, FiniteSets, TLC

VARIABLES
    mounted,               \* the Drawer instances on the page
    slideDirection,        \* prop slideDirection of each instance
    isMenuOpen,            \* useMenuState: useState(false)
    hasBeenOpened,         \* useMenuState: useState(false)
    isMenuTransitioning,   \* useMenuState: useState(false)
    isLocked,              \* useLockScroll: useState(false)
    lockedScrollPosition,  \* useLockScroll: useState<number | null>(null)
    initialized,           \* useLockScroll: useRef(false)
    effectPending,         \* instances whose scroll-lock effect is scheduled
    cleanup,               \* the last effect run of the instance returned a cleanup
    transitioningTimeout,  \* `let transitioningTimeout` of the rendered closure
    timers,                \* pending window.setTimeout callbacks, oldest first
    hasDocument,           \* window.document.documentElement is available
    docStyle,              \* documentElement.style
    bodyWidth,             \* document.body.style.width
    pageYOffset,           \* window.pageYOffset
    clientTop,             \* documentElement.clientTop
    error,                 \* the exception that escaped a handler or effect
    scrollToArg,           \* y of the window.scrollTo(0, y) made by the last step
    scrollToStyle,         \* documentElement.style when that call was made
    effectRun,             \* how the effect of each instance ran in the last step
    sinceLastCall,         \* history: ms since the last setMenuOpen call
    openCalled,            \* history: setMenuOpen(true) has been called
    lastRequest,           \* history: value of the last setMenuOpen call
    lockReadOffset,        \* history: what getScrollPosition returned when the
                           \* effect last ran with the lock flag true
    scrollToCalls,         \* history: window.scrollTo calls of the instance
                           \* since its effect last ran with the lock flag true
    lastEvent              \* history: the event the last step handled

vars == <<mounted, slideDirection, isMenuOpen, hasBeenOpened,
          isMenuTransitioning, isLocked, lockedScrollPosition, initialized,
          effectPending, cleanup, transitioningTimeout, timers, hasDocument,
          docStyle, bodyWidth, pageYOffset, clientTop, error, scrollToArg,
          scrollToStyle, effectRun, sinceLastCall, openCalled, lastRequest,
          lockReadOffset, scrollToCalls, lastEvent>>

(***************************************************************************)
(* Bounds and program constants.                                           *)
(***************************************************************************)
\* delay of the transition timer, window.setTimeout(..., 300)
TransitionMs == 300

\* time passes in steps of TickMs milliseconds
TickMs == 100

\* at most MaxTimers timeouts are pending at once
MaxTimers == 2

\* the page scrolls between 0 and MaxScroll pixels
MaxScroll == 1

\* documentElement.clientTop: <html> has no top border, or one of 1px
ClientTops == {0, 1}

\* document.body.getBoundingClientRect().width
BodyBoundsWidth == 320

AllDrawers == {1, 2}

\* the values of the slideDirection prop; "diagonal" stands for any value
\* the switch of resolveSlideDirection does not list
SlideDirections ==
    {"horizontal", "vertical", "leftToRight", "rightToLeft", "diagonal"}

NoEffectRun == [d \in AllDrawers |-> "none"]

\* null, and a number n, as values of one kind
Null == <<>>
Some(n) == <<n>>

Min(a, b) == IF a < b THEN a ELSE b
Max(a, b) == IF a > b THEN a ELSE b

(***************************************************************************)
(* The state as one record, so that the steps of a handler compose.        *)
(***************************************************************************)
World ==
    [mounted |-> mounted, slideDirection |-> slideDirection,
     isMenuOpen |-> isMenuOpen, hasBeenOpened |-> hasBeenOpened,
     isMenuTransitioning |-> isMenuTransitioning, isLocked |-> isLocked,
     lockedScrollPosition |-> lockedScrollPosition,
     initialized |-> initialized, effectPending |-> effectPending,
     cleanup |-> cleanup, transitioningTimeout |-> transitioningTimeout,
     timers |-> timers, hasDocument |-> hasDocument, docStyle |-> docStyle,
     bodyWidth |-> bodyWidth, pageYOffset |-> pageYOffset,
     clientTop |-> clientTop, error |-> error, scrollToArg |-> scrollToArg,
     scrollToStyle |-> scrollToStyle, effectRun |-> effectRun,
     sinceLastCall |-> sinceLastCall, openCalled |-> openCalled,
     lastRequest |-> lastRequest, lockReadOffset |-> lockReadOffset,
     scrollToCalls |-> scrollToCalls, lastEvent |-> lastEvent]

Commit(w) ==
    /\ mounted' = w.mounted
    /\ slideDirection' = w.slideDirection
    /\ isMenuOpen' = w.isMenuOpen
    /\ hasBeenOpened' = w.hasBeenOpened
    /\ isMenuTransitioning' = w.isMenuTransitioning
    /\ isLocked' = w.isLocked
    /\ lockedScrollPosition' = w.lockedScrollPosition
    /\ initialized' = w.initialized
    /\ effectPending' = w.effectPending
    /\ cleanup' = w.cleanup
    /\ transitioningTimeout' = w.transitioningTimeout
    /\ timers' = w.timers
    /\ hasDocument' = w.hasDocument
    /\ docStyle' = w.docStyle
    /\ bodyWidth' = w.bodyWidth
    /\ pageYOffset' = w.pageYOffset
    /\ clientTop' = w.clientTop
    /\ error' = w.error
    /\ scrollToArg' = w.scrollToArg
    /\ scrollToStyle' = w.scrollToStyle
    /\ effectRun' = w.effectRun
    /\ sinceLastCall' = w.sinceLastCall
    /\ openCalled' = w.openCalled
    /\ lastRequest' = w.lastRequest
    /\ lockReadOffset' = w.lockReadOffset
    /\ scrollToCalls' = w.scrollToCalls
    /\ lastEvent' = w.lastEvent

(***************************************************************************)
(* Browser.                                                                *)
(***************************************************************************)
\* inline styles nothing has written yet
UnsetStyle ==
    [overflow |-> "", position |-> "", top |-> "", bottom |-> "", left |-> ""]

\* `${n}px`
Px(n) == ToString(n) \o "px"

\* documentElement.scrollTop: the document scrolls with the window
scrollTop(w) == w.pageYOffset

\* window.scrollTo(0, y): the browser clamps y to the scrollable range
scrollTo(w, y) ==
    [w EXCEPT !.pageYOffset = Max(0, Min(MaxScroll, y)),
              !.scrollToArg = Some(y),
              !.scrollToStyle = Some(w.docStyle)]

\* position 'fixed' on the root element resets the scroll position
ApplyPosition(w, position) ==
    [w EXCEPT !.docStyle.position = position,
              !.pageYOffset = IF position = "fixed" THEN 0 ELSE @]

(***************************************************************************)
(* getScrollPosition                                                       *)
(***************************************************************************)
getScrollPosition(w) ==
    IF ~w.hasDocument
    THEN 0
    ELSE (IF w.pageYOffset # 0 THEN w.pageYOffset ELSE scrollTop(w))
         - (IF w.clientTop # 0 THEN w.clientTop ELSE 0)

(***************************************************************************)
(* useLockScroll: the effect of lines 32-96 and its cleanup.               *)
(***************************************************************************)
\* mutant: the early return is missing
EffectReturnsEarly_Never(w, d) == FALSE

\* the guard of the early return: `!initialized.current && !isLocked`
EffectReturnsEarly(w, d) == ~w.initialized[d] /\ ~w.isLocked[d]

\* `lockedScrollPosition == null ? getScrollPosition() : lockedScrollPosition`
ScrollPositionOf(w, d) ==
    IF w.lockedScrollPosition[d] = Null
    THEN getScrollPosition(w)
    ELSE w.lockedScrollPosition[d][1]

\* mutant: the null test is inverted
ShouldRecord_Inverted(lsp, shouldLockScroll) == lsp # Null /\ shouldLockScroll

\* `lockedScrollPosition == null && shouldLockScroll`
ShouldRecord(lsp, shouldLockScroll) == lsp = Null /\ shouldLockScroll

\* mutant: a truthiness test, `lockedScrollPosition && !shouldLockScroll`,
\* which takes the offset 0 for no offset
ShouldRestore_Truthy(lsp, shouldLockScroll) ==
    lsp # Null /\ lsp[1] # 0 /\ ~shouldLockScroll

\* `lockedScrollPosition != null && !shouldLockScroll`
ShouldRestore(lsp, shouldLockScroll) == lsp # Null /\ ~shouldLockScroll

\* the style values written for shouldLockScroll
OverflowFor(shouldLockScroll) == IF shouldLockScroll THEN "hidden" ELSE "auto"
PositionFor(shouldLockScroll) == IF shouldLockScroll THEN "fixed" ELSE "static"
TopFor(shouldLockScroll, scrollPosition) ==
    IF shouldLockScroll THEN "-" \o Px(scrollPosition) ELSE "auto"

\* mutant: the cleanup leaves the width of document.body as it is
EffectCleanup_KeepsWidth(w) ==
    IF ~w.hasDocument
    THEN [w EXCEPT !.error = "TypeError"]
    ELSE [ApplyPosition(w, "static") EXCEPT
            !.docStyle.overflow = "auto",
            !.docStyle.top = "auto",
            !.docStyle.bottom = "auto",
            !.docStyle.left = "auto"]

\* the cleanup function the effect returns; its documentElement is the one
\* the effect run read, and it is used without a check
EffectCleanup(w) ==
    IF ~w.hasDocument
    THEN [w EXCEPT !.error = "TypeError"]
    ELSE [ApplyPosition(w, "static") EXCEPT
            !.docStyle.overflow = "auto",
            !.docStyle.top = "auto",
            !.docStyle.bottom = "auto",
            !.docStyle.left = "auto",
            !.bodyWidth = "auto"]

\* the part of the effect inside `if (documentElement)`
EffectWrites(w, d) ==
    LET shouldLockScroll == w.isLocked[d]
        lsp == w.lockedScrollPosition[d]
        scrollPosition == ScrollPositionOf(w, d)
        w1 == [w EXCEPT
                 !.bodyWidth = IF shouldLockScroll
                               THEN Px(BodyBoundsWidth) ELSE "auto",
                 !.docStyle.overflow = OverflowFor(shouldLockScroll),
                 !.lockReadOffset[d] =
                     IF shouldLockScroll
                     THEN Some(getScrollPosition(w)) ELSE @,
                 !.scrollToCalls[d] = IF shouldLockScroll THEN 0 ELSE @]
        w2 == IF ShouldRecord(lsp, shouldLockScroll)
              THEN [w1 EXCEPT !.lockedScrollPosition[d] = Some(scrollPosition)]
              ELSE w1
        w3 == IF ShouldRestore(lsp, shouldLockScroll)
              THEN [scrollTo(w2, scrollPosition) EXCEPT
                      !.lockedScrollPosition[d] = Null,
                      !.scrollToCalls[d] = Min(2, @ + 1)]
              ELSE w2
        w4 == ApplyPosition(w3, PositionFor(shouldLockScroll))
    IN  [w4 EXCEPT
           !.docStyle.top = TopFor(shouldLockScroll, scrollPosition),
           !.docStyle.bottom = IF shouldLockScroll THEN "0" ELSE "auto",
           !.docStyle.left = IF shouldLockScroll THEN "0" ELSE "auto"]

\* the effect function; effectRun notes which way it went: the early
\* return, or a run with the lock flag true ("lock") or false ("unlock")
EffectBody(w, d) ==
    IF EffectReturnsEarly(w, d)
    THEN [w EXCEPT !.initialized[d] = TRUE, !.cleanup[d] = FALSE,
                   !.effectRun[d] = "early"]
    ELSE [(IF w.hasDocument THEN EffectWrites(w, d) ELSE w) EXCEPT
            !.cleanup[d] = TRUE,
            !.effectRun[d] = IF w.isLocked[d] THEN "lock" ELSE "unlock"]

\* mutant: the effect returns no cleanup, so none runs before the next run
RunEffect_NoCleanup(w, d) ==
    [EffectBody(w, d) EXCEPT !.effectPending = @ \ {d}]

\* one run of the effect: the cleanup of the previous run, then the effect
RunEffect(w, d) ==
    LET c == IF w.cleanup[d] THEN EffectCleanup(w) ELSE w
    IN  IF c.error # "none"
        THEN c
        ELSE [EffectBody(c, d) EXCEPT !.effectPending = @ \ {d}]

FlushOne(w, d) ==
    IF d \in w.effectPending /\ w.error = "none" THEN RunEffect(w, d) ELSE w

\* React runs the scheduled passive effects
flushPassiveEffects(w) == FlushOne(FlushOne(w, 1), 2)

(***************************************************************************)
(* Rendering.                                                              *)
(***************************************************************************)
\* the hook state of an instance
HookState(w, d) ==
    <<w.isMenuOpen[d], w.hasBeenOpened[d], w.isMenuTransitioning[d],
      w.isLocked[d], w.lockedScrollPosition[d]>>

\* mutant: the deps are `[]`, the effect runs at the mount only
EffectDepsChanged_Never(old, new, d) == FALSE

\* mutant: the effect has no deps array and runs after every render
EffectDepsChanged_Always(old, new, d) == TRUE

\* the deps of the effect, `[isLocked]`, differ between two renders
EffectDepsChanged(old, new, d) == old.isLocked[d] # new.isLocked[d]

\* The render React makes when the hook state of d changed from old to new:
\* the component function runs again, so `let transitioningTimeout` is a
\* new, unassigned variable, and the effect is scheduled when its deps
\* changed.  React makes no render when no state value changed.
Render(old, new, d) ==
    IF new.error # "none" \/ HookState(old, d) = HookState(new, d)
    THEN new
    ELSE [new EXCEPT
            !.transitioningTimeout[d] = Null,
            !.effectPending =
                IF EffectDepsChanged(old, new, d) THEN @ \cup {d} ELSE @]

RenderAll(old, new) == Render(old, Render(old, new, 1), 2)

(***************************************************************************)
(* useMenuState                                                            *)
(***************************************************************************)
\* The pending timers are kept in the order of their creation, and the
\* handle of a timer is its place in that order: the timer at place i leaves
\* (it fired or was cleared), so the handles behind it move up, and a handle
\* of the timer itself becomes 0, the handle of no pending timer.
RemoveTimer(w, i) ==
    [w EXCEPT
       !.timers = SubSeq(@, 1, i - 1) \o SubSeq(@, i + 1, Len(@)),
       !.transitioningTimeout =
           [d \in AllDrawers |->
               IF @[d] = Null THEN Null
               ELSE IF @[d][1] = i THEN Some(0)
               ELSE IF @[d][1] > i THEN Some(@[d][1] - 1)
               ELSE @[d]]]

\* window.clearTimeout(handle)
clearTimeout(w, handle) ==
    IF handle \in 1..Len(w.timers) THEN RemoveTimer(w, handle) ELSE w

\* `transitioningTimeout = window.setTimeout(callback, 300)`
setTimeout(w, d) ==
    [w EXCEPT
       !.timers = Append(@, [drawer |-> d, remaining |-> TransitionMs]),
       !.transitioningTimeout[d] = Some(Len(w.timers) + 1)]

\* mutant: `setHasBeenOpened(value)`
NextHasBeenOpened_Follows(opened, value) == value

\* `if (!hasBeenOpened && value) setHasBeenOpened(true)`
NextHasBeenOpened(opened, value) ==
    IF ~opened /\ value THEN TRUE ELSE opened

\* `if (transitioningTimeout != null) { clearTimeout(transitioningTimeout);
\* transitioningTimeout = null }`
ClearPending(w, d) ==
    IF w.transitioningTimeout[d] # Null
    THEN [clearTimeout(w, w.transitioningTimeout[d][1]) EXCEPT
            !.transitioningTimeout[d] = Null]
    ELSE w

\* mutant: setMenuOpen toggles, `setIsOpen(!isMenuOpen)`
MenuStateFor_Toggle(w, d, value) ==
    [hasBeenOpened |-> NextHasBeenOpened(w.hasBeenOpened[d], value),
     isMenuOpen |-> ~w.isMenuOpen[d],
     isMenuTransitioning |-> TRUE,
     isLocked |-> value]

\* mutant: `setIsTransitioning(true)` is missing
MenuStateFor_NoTransition(w, d, value) ==
    [hasBeenOpened |-> NextHasBeenOpened(w.hasBeenOpened[d], value),
     isMenuOpen |-> value,
     isMenuTransitioning |-> w.isMenuTransitioning[d],
     isLocked |-> value]

\* what the four setters of setMenuOpen(value) are called with
MenuStateFor(w, d, value) ==
    [hasBeenOpened |-> NextHasBeenOpened(w.hasBeenOpened[d], value),
     isMenuOpen |-> value,
     isMenuTransitioning |-> TRUE,
     isLocked |-> value]

\* setMenuOpen(value), called from the closure of the last render, and the
\* render its state updates cause
setMenuOpen(w, d, value) ==
    LET next == MenuStateFor(w, d, value)
        w1 == [setTimeout(ClearPending(w, d), d) EXCEPT
                 !.sinceLastCall[d] = 0,
                 !.openCalled[d] = @ \/ value,
                 !.lastRequest[d] = IF value THEN "open" ELSE "close",
                 !.lastEvent.call = IF value THEN "open" ELSE "close"]
        changes == \/ next.hasBeenOpened # w.hasBeenOpened[d]
                   \/ next.isMenuOpen # w.isMenuOpen[d]
                   \/ next.isMenuTransitioning # w.isMenuTransitioning[d]
                   \/ next.isLocked # w.isLocked[d]
        w2 == flushPassiveEffects(w1)
        w3 == [w2 EXCEPT
                 !.hasBeenOpened[d] = next.hasBeenOpened,
                 !.isMenuOpen[d] = next.isMenuOpen,
                 !.isMenuTransitioning[d] = next.isMenuTransitioning,
                 !.isLocked[d] = next.isLocked]
    IN  IF ~changes THEN w1
        ELSE IF w2.error # "none" THEN w2
        ELSE RenderAll(w, w3)

openMenu(w, d) == setMenuOpen(w, d, TRUE)
closeMenu(w, d) == setMenuOpen(w, d, FALSE)

\* the callback of the timer: `setIsTransitioning(false)`
TimeoutCallback(w, d) ==
    IF ~w.isMenuTransitioning[d] \/ d \notin w.mounted
    THEN w
    ELSE LET w2 == flushPassiveEffects(w)
         IN  IF w2.error # "none" THEN w2
             ELSE RenderAll(w, [w2 EXCEPT !.isMenuTransitioning[d] = FALSE])

(***************************************************************************)
(* Drawer: what it renders.                                                *)
(***************************************************************************)
\* the transform of the panel: <<x, y>> of translate3d(x, y, 0)
slideFromTopToBottom(open) == <<"0", IF open THEN "0" ELSE "-100%">>
slideFromLeftToRight(open) == <<IF open THEN "0" ELSE "-100%", "0">>
slideFromRightToLeft(open) == <<IF open THEN "0" ELSE "100%", "0">>

resolveSlideDirection(dir, open) ==
    CASE dir = "horizontal" -> slideFromLeftToRight(open)
      [] dir = "vertical" -> slideFromTopToBottom(open)
      [] dir = "leftToRight" -> slideFromLeftToRight(open)
      [] dir = "rightToLeft" -> slideFromRightToLeft(open)
      [] OTHER -> slideFromLeftToRight(open)

\* the prop onSwipeLeft of <Swipable>
onSwipeLeft(dir) ==
    IF dir = "horizontal" \/ dir = "leftToRight" THEN "closeMenu" ELSE "null"

\* mutant: the swipe to the right is wired for the other direction
onSwipeRight_Swapped(dir) ==
    IF dir = "leftToRight" THEN "closeMenu" ELSE "null"

\* `onSwipeRight={slideDirection === 'rightToLeft' ? closeMenu : null}`
onSwipeRight(dir) == IF dir = "rightToLeft" THEN "closeMenu" ELSE "null"

\* `<Overlay visible={isMenuOpen} onClick={closeMenu} />`
overlayVisible(d) == isMenuOpen[d]

\* `<Swipable enabled={isMenuOpen} ...>`
swipableEnabled(d) == isMenuOpen[d]

\* mutant: the panel always takes pointer events
pointerEvents_Auto(d) == "auto"

\* `pointerEvents: isMenuOpen ? 'auto' : 'none'`
pointerEvents(d) == IF isMenuOpen[d] THEN "auto" ELSE "none"

\* `hasBeenOpened && children`
childrenMounted(d) == hasBeenOpened[d]

\* `transition: isMenuTransitioning ? 'transform 300ms' : 'none'`
transition(d) ==
    IF isMenuTransitioning[d]
    THEN "transform " \o ToString(TransitionMs) \o "ms"
    ELSE "none"

\* the gestures a touch on the panel can make
Gestures == {"left", "right", "up", "down"}

\* Swipable: while enabled, a swipe to the left calls onSwipeLeft and a swipe
\* to the right calls onSwipeRight, when they are given; it is given no
\* callback for another gesture
SwipableCallback(enabled, left, right, gesture) ==
    IF ~enabled THEN "null"
    ELSE IF gesture = "left" THEN left
    ELSE IF gesture = "right" THEN right
    ELSE "null"

(***************************************************************************)
(* Events.                                                                 *)
(***************************************************************************)
\* an event: its name, the instance it is for, its gesture, and the
\* setMenuOpen call its handler made ("none", "open", "close")
Event(name, d, arg) ==
    [name |-> name, drawer |-> d, arg |-> arg, call |-> "none"]

\* the state a step starts from: no window.scrollTo and no effect run yet
Begin(ev) ==
    [World EXCEPT !.scrollToArg = Null, !.scrollToStyle = Null,
                  !.effectRun = NoEffectRun, !.lastEvent = ev]

\* an instance that is on the page and can take a setMenuOpen call
CanCall(d) ==
    /\ error = "none"
    /\ d \in mounted
    /\ Len(ClearPending(World, d).timers) < MaxTimers

\* onClick of the open icon container
OpenIconClick(d) ==
    /\ CanCall(d)
    /\ Commit(openMenu(Begin(Event("openIconClick", d, "")), d))

\* onClick of <Overlay>
OverlayClick(d) ==
    /\ CanCall(d)
    /\ Commit(closeMenu(Begin(Event("overlayClick", d, "")), d))

\* onClick of the close icon button
CloseButtonClick(d) ==
    /\ CanCall(d)
    /\ Commit(closeMenu(Begin(Event("closeButtonClick", d, "")), d))

\* a swipe gesture on the panel
Swipe(d, gesture) ==
    /\ CanCall(d)
    /\ LET w == Begin(Event("swipe", d, gesture))
           cb == SwipableCallback(swipableEnabled(d),
                                  onSwipeLeft(slideDirection[d]),
                                  onSwipeRight(slideDirection[d]), gesture)
       IN  Commit(IF cb = "closeMenu" THEN closeMenu(w, d) ELSE w)

\* the browser lets React run the scheduled effects
PassiveEffects ==
    /\ error = "none"
    /\ effectPending # {}
    /\ LET w == Begin(Event("effect", 0, ""))
       IN  Commit(RenderAll(w, flushPassiveEffects(w)))

\* a timer is due; timers of one delay are due in the order of their creation
TimeoutDue == error = "none" /\ timers # <<>> /\ timers[1].remaining = 0

\* the timer that is due fires
Timeout ==
    /\ TimeoutDue
    /\ LET d == timers[1].drawer
           w == RemoveTimer(Begin(Event("timeout", d, "")), 1)
       IN  Commit(TimeoutCallback(w, d))

\* TickMs milliseconds pass
Tick ==
    /\ error = "none"
    /\ Commit([Begin(Event("tick", 0, "")) EXCEPT
                 !.timers =
                     [i \in DOMAIN timers |->
                         [timers[i] EXCEPT !.remaining = Max(0, @ - TickMs)]],
                 !.sinceLastCall =
                     [d \in AllDrawers |-> Min(TransitionMs, @[d] + TickMs)]])

\* the user scrolls the page, which a locked page does not allow
Scroll(y) ==
    /\ error = "none"
    /\ docStyle.overflow # "hidden"
    /\ docStyle.position # "fixed"
    /\ y # pageYOffset
    /\ Commit([Begin(Event("scroll", 0, "")) EXCEPT !.pageYOffset = y])

\* React unmounts the Drawer: before it commits the update it runs the
\* effects that are still scheduled, and the unmount runs the cleanup of the
\* last effect run.  The timers of the instance stay pending.
Unmount(d) ==
    /\ error = "none"
    /\ d \in mounted
    /\ LET w == Begin(Event("unmount", d, ""))
           w1 == RenderAll(w, flushPassiveEffects(w))
           w2 == IF w1.error = "none" /\ w1.cleanup[d]
                 THEN EffectCleanup(w1) ELSE w1
       IN  Commit([w2 EXCEPT !.mounted = @ \ {d},
                             !.cleanup[d] = FALSE,
                             !.effectPending = @ \ {d}])

(***************************************************************************)
(* Specifications.                                                         *)
(***************************************************************************)
\* the state after the first render of the mounted instances: the effect of
\* the mount is scheduled
InitWith(drawers, doc) ==
    /\ mounted = drawers
    /\ slideDirection \in [AllDrawers -> SlideDirections]
    /\ \A d \in AllDrawers \ drawers : slideDirection[d] = "horizontal"
    /\ isMenuOpen = [d \in AllDrawers |-> FALSE]
    /\ hasBeenOpened = [d \in AllDrawers |-> FALSE]
    /\ isMenuTransitioning = [d \in AllDrawers |-> FALSE]
    /\ isLocked = [d \in AllDrawers |-> FALSE]
    /\ lockedScrollPosition = [d \in AllDrawers |-> Null]
    /\ initialized = [d \in AllDrawers |-> FALSE]
    /\ effectPending = drawers
    /\ cleanup = [d \in AllDrawers |-> FALSE]
    /\ transitioningTimeout = [d \in AllDrawers |-> Null]
    /\ timers = <<>>
    /\ hasDocument = doc
    /\ docStyle = UnsetStyle
    /\ bodyWidth = ""
    /\ pageYOffset \in 0..MaxScroll
    /\ clientTop \in ClientTops
    /\ error = "none"
    /\ scrollToArg = Null
    /\ scrollToStyle = Null
    /\ effectRun = NoEffectRun
    /\ sinceLastCall = [d \in AllDrawers |-> TransitionMs]
    /\ openCalled = [d \in AllDrawers |-> FALSE]
    /\ lastRequest = [d \in AllDrawers |-> "none"]
    /\ lockReadOffset = [d \in AllDrawers |-> Null]
    /\ scrollToCalls = [d \in AllDrawers |-> 0]
    /\ lastEvent = Event("mount", 0, "")

\* one Drawer on a page with a document
Init == InitWith({1}, TRUE)

\* one Drawer where window.document.documentElement is not available
InitNoDocument == InitWith({1}, FALSE)

\* two Drawers on one page, the first with the default slideDirection
InitTwo == InitWith(AllDrawers, TRUE) /\ slideDirection[1] = "horizontal"

Next ==
    \/ \E d \in AllDrawers : OpenIconClick(d)
    \/ \E d \in AllDrawers : OverlayClick(d)
    \/ \E d \in AllDrawers : CloseButtonClick(d)
    \/ \E d \in AllDrawers : \E g \in Gestures : Swipe(d, g)
    \/ PassiveEffects
    \/ Timeout
    \/ Tick
    \/ \E y \in 0..MaxScroll : Scroll(y)

Spec == Init /\ [][Next]_vars

SpecNoDocument == InitNoDocument /\ [][Next]_vars

SpecTwo == InitTwo /\ [][Next]_vars

\* the steps of a page that can also unmount a Drawer
NextUnmount == Next \/ \E d \in AllDrawers : Unmount(d)

SpecUnmount == Init /\ [][NextUnmount]_vars

\* The browser keeps time and fires the timer that is due: weak fairness of
\* Tick and of Timeout.  Timeout is enabled exactly when TimeoutDue, and
\* each of its steps changes timers, so its weak fairness is written with
\* TimeoutDue for ENABLED <<Timeout>>_vars.
Fairness ==
    /\ WF_vars(Tick)
    /\ ([]<>(~TimeoutDue) \/ []<><<Timeout>>_vars)

LiveSpec == Init /\ [][Next]_vars /\ Fairness

(***************************************************************************)
(* Properties.                                                             *)
(***************************************************************************)
\* the effect of the latest render of d has run
Settled(d) == d \in mounted /\ d \notin effectPending /\ error = "none"

PageLocked == docStyle.overflow = "hidden" /\ docStyle.position = "fixed"
PageUnlocked == docStyle.overflow = "auto" /\ docStyle.position = "static"

\* the last step made a setMenuOpen call on d
CalledNow(d) == lastEvent.drawer = d /\ lastEvent.call # "none"

\* C1 as stated: in every settled state documentElement has overflow
\* 'hidden' and position 'fixed' if isMenuOpen, and overflow 'auto' and
\* position 'static' if not, after any sequence of open and close events.
C1_LockedExactlyWhileOpen ==
    \A d \in mounted :
        Settled(d) => IF isMenuOpen[d] THEN PageLocked ELSE PageUnlocked

\* C1 amended: in every settled state the page is locked ('hidden', 'fixed')
\* if isMenuOpen, and unlocked ('auto', 'static') if isMenuOpen is false and
\* the drawer has been opened before.
C1_LockedWhileOpenUnlockedAfter ==
    \A d \in mounted :
        Settled(d) =>
            /\ isMenuOpen[d] => PageLocked
            /\ ~isMenuOpen[d] /\ hasBeenOpened[d] => PageUnlocked

C1_Witness ==
    /\ Settled(1)
    /\ hasBeenOpened[1] /\ ~isMenuOpen[1]
    /\ lastRequest[1] = "close"
    /\ effectRun[1] = "unlock"
    /\ PageUnlocked

\* C2, in the settled states: while locked, the recorded offset and the
\* offset in documentElement.style.top are the offset getScrollPosition
\* returned when the lock was applied.
C2_LockedOffset ==
    \A d \in mounted :
        Settled(d) /\ isLocked[d] =>
            /\ lockReadOffset[d] # Null
            /\ lockedScrollPosition[d] = lockReadOffset[d]
            /\ docStyle.top = "-" \o Px(lockReadOffset[d][1])

\* C2, in the steps: the effect run that releases the lock calls
\* window.scrollTo(0, y) with y the offset read when the lock was applied,
\* and window.scrollTo is called by no other step.
C2_RestoredOffset ==
    /\ \A d \in mounted :
           effectRun'[d] = "unlock" =>
               lockReadOffset[d] # Null /\ scrollToArg' = lockReadOffset[d]
    /\ scrollToArg' # Null => \E d \in mounted : effectRun'[d] = "unlock"

\* C2: the scroll offset round-trips across open then close, offset 0
\* included, in every open/close cycle.
C2_ScrollRoundTrip == []C2_LockedOffset /\ [][C2_RestoredOffset]_vars

\* an unlock has restored the offset 0
C2_Witness ==
    /\ effectRun[1] = "unlock"
    /\ scrollToArg = Some(0)
    /\ lockReadOffset[1] = Some(0)
    /\ clientTop = 0

\* C3 as stated: at most one transition timer is pending for a drawer at any
\* time, and no timer callback sets isMenuTransitioning to false earlier than
\* 300 ms after the most recent setMenuOpen call.
C3_SingleTimer ==
    \A d \in mounted :
        /\ Cardinality({i \in DOMAIN timers : timers[i].drawer = d}) <= 1
        /\ lastEvent.name = "timeout" /\ lastEvent.drawer = d =>
               sinceLastCall[d] >= TransitionMs

\* C4, in the settled states: lockedScrollPosition is non-null if and only
\* if the lock flag is true.
C4_RecordedIffLocked ==
    \A d \in mounted :
        Settled(d) => (lockedScrollPosition[d] # Null <=> isLocked[d])

\* C4, in the steps: lockedScrollPosition becomes non-null only in an effect
\* run with the lock flag true, and the effect run with the lock flag false
\* resets it to null.
C4_RecordedByEffect ==
    \A d \in mounted :
        /\ lockedScrollPosition[d] = Null /\ lockedScrollPosition'[d] # Null
               => effectRun'[d] = "lock" /\ isLocked[d]
        /\ effectRun'[d] = "unlock"
               => lockedScrollPosition[d] # Null
                  /\ lockedScrollPosition'[d] = Null

\* C4: the scroll offset is recorded only while locked and cleared on unlock.
C4_OffsetOnlyWhileLocked ==
    []C4_RecordedIffLocked /\ [][C4_RecordedByEffect]_vars

C4_Witness ==
    /\ Settled(1)
    /\ ~isLocked[1]
    /\ lockedScrollPosition[1] = Null
    /\ effectRun[1] = "unlock"

\* C5, in the states: children are mounted exactly when an open event has
\* happened, and an open drawer has mounted its children.
C5_MountedIffOpened ==
    \A d \in mounted :
        /\ hasBeenOpened[d] = openCalled[d]
        /\ childrenMounted(d) = hasBeenOpened[d]
        /\ isMenuOpen[d] => hasBeenOpened[d]

\* C5: children are not mounted before the first open event, no close event
\* mounts them, an open drawer has them mounted, and once mounted they stay
\* mounted.
C5_LazyMount ==
    /\ []C5_MountedIffOpened
    /\ [][\A d \in mounted : hasBeenOpened[d] => hasBeenOpened'[d]]_vars

C5_Witness ==
    /\ hasBeenOpened[1] /\ ~isMenuOpen[1]
    /\ CalledNow(1)
    /\ lastRequest[1] = "close"

\* the gesture is one the Drawer has given <Swipable> a callback for
SwipeWired(d, gesture) ==
    \/ gesture = "left" /\ onSwipeLeft(slideDirection[d]) = "closeMenu"
    \/ gesture = "right" /\ onSwipeRight(slideDirection[d]) = "closeMenu"

\* C6: after a click on the open icon isMenuOpen is true, and after an
\* overlay click, a close-button click or a wired swipe it is false,
\* whatever it was before: isMenuOpen is what the last event asked for.
C6_LastEventDecides ==
    \A d \in mounted :
        /\ lastRequest[d] = "open" => isMenuOpen[d]
        /\ lastRequest[d] = "close" => ~isMenuOpen[d]
        /\ lastEvent.drawer = d =>
               /\ lastEvent.name = "openIconClick" =>
                      isMenuOpen[d] /\ lastRequest[d] = "open"
               /\ lastEvent.name \in {"overlayClick", "closeButtonClick"} =>
                      ~isMenuOpen[d] /\ lastRequest[d] = "close"
               /\ lastEvent.name = "swipe" /\ SwipeWired(d, lastEvent.arg) =>
                      ~isMenuOpen[d]

\* an open click on a drawer that was open already
C6_Witness ==
    /\ lastEvent.name = "openIconClick"
    /\ isMenuOpen[1]
    /\ Settled(1)
    /\ isLocked[1] /\ lockedScrollPosition[1] # Null

\* the gesture that moves the panel the way it moves when it closes, from
\* the transform of the closed panel
ClosingGesture(dir) ==
    LET t == resolveSlideDirection(dir, FALSE)
    IN  IF t[1] = "-100%" THEN "left"
        ELSE IF t[1] = "100%" THEN "right"
        ELSE IF t[2] = "-100%" THEN "up"
        ELSE "down"

OppositeGesture(g) ==
    CASE g = "left" -> "right"
      [] g = "right" -> "left"
      [] g = "up" -> "down"
      [] g = "down" -> "up"

\* a swipe on the open drawer d, of a slide direction in dirs: in the closing
\* direction it closes the drawer, in the opposite direction it does not
SwipeClosesIn(dirs) ==
    \A d \in mounted :
        isMenuOpen[d] /\ slideDirection[d] \in dirs
        /\ lastEvent'.name = "swipe" /\ lastEvent'.drawer = d
        =>  /\ lastEvent'.arg = ClosingGesture(slideDirection[d])
                => ~isMenuOpen'[d]
            /\ lastEvent'.arg = OppositeGesture(ClosingGesture(slideDirection[d]))
                => isMenuOpen'[d]

\* a swipe on the open drawer d, of a slide direction in dirs, leaves it open
SwipeIgnoredIn(dirs) ==
    \A d \in mounted :
        isMenuOpen[d] /\ slideDirection[d] \in dirs
        /\ lastEvent'.name = "swipe" /\ lastEvent'.drawer = d
        => isMenuOpen'[d]

\* C7 as stated: for each of horizontal, vertical, leftToRight and
\* rightToLeft, a swipe in the closing direction closes the open drawer and
\* a swipe in the opposite direction does not.
C7_SwipeClosesEveryDirection ==
    [][SwipeClosesIn({"horizontal", "vertical", "leftToRight",
                      "rightToLeft"})]_vars

\* C7 amended: for horizontal, leftToRight and rightToLeft a swipe in the
\* closing direction closes the open drawer and a swipe in the opposite
\* direction does not; a vertical drawer is closed by no swipe.
C7_SwipeClosesHorizontally ==
    [][/\ SwipeClosesIn({"horizontal", "leftToRight", "rightToLeft"})
       /\ SwipeIgnoredIn({"vertical"})]_vars

\* a swipe to the right has closed a rightToLeft drawer
C7_Witness ==
    /\ slideDirection[1] = "rightToLeft"
    /\ lastEvent.name = "swipe" /\ lastEvent.arg = "right"
    /\ CalledNow(1)
    /\ lastRequest[1] = "close"
    /\ hasBeenOpened[1] /\ ~isMenuOpen[1]

\* C8, in the states: the state rendered after a setMenuOpen call has the
\* requested isMenuOpen together with isMenuTransitioning true, so the
\* transition is 'transform 300ms'.
C8_TransitionOnCall ==
    \A d \in mounted :
        CalledNow(d) =>
            /\ isMenuTransitioning[d]
            /\ transition(d) = "transform 300ms"
            /\ isMenuOpen[d] = (lastEvent.call = "open")

\* the step makes a setMenuOpen call
CallStep == lastEvent'.call # "none"

\* C8: every open or close call renders isMenuTransitioning true with the
\* new isMenuOpen, and when the calls stop, isMenuTransitioning eventually
\* is false, the transition 'none', for good.
C8_TransitionEnds ==
    /\ []C8_TransitionOnCall
    /\ (<>[][~CallStep]_vars =>
            <>[](\A d \in mounted :
                    ~isMenuTransitioning[d] /\ transition(d) = "none"))

\* the timer of the last call has fired
C8_Witness ==
    /\ lastEvent.name = "timeout"
    /\ hasBeenOpened[1]
    /\ ~isMenuTransitioning[1]
    /\ timers = <<>>
    /\ transition(1) = "none"

\* C9 as stated: without a documentElement getScrollPosition returns 0 and
\* the effect and its cleanup write no style and raise no error.
C9_NullChecked ==
    ~hasDocument =>
        /\ getScrollPosition(World) = 0
        /\ docStyle = UnsetStyle
        /\ bodyWidth = ""
        /\ error = "none"

\* C10: before the first open event the effect has written no style and
\* called no window.scrollTo: its run at the mount returned early, the lock
\* flag stays false over any close events and the effect is not run again.
C10_NothingBeforeFirstOpen ==
    \A d \in mounted :
        ~openCalled[d] =>
            /\ docStyle = UnsetStyle
            /\ bodyWidth = ""
            /\ scrollToArg = Null
            /\ ~isLocked[d]
            /\ ~cleanup[d]
            /\ effectRun[d] \in {"none", "early"}
            /\ initialized[d] => d \notin effectPending

\* close events before the first open, after the effect of the mount
C10_Witness ==
    /\ ~openCalled[1]
    /\ initialized[1]
    /\ lastRequest[1] = "close"
    /\ lastEvent.name = "timeout"
    /\ docStyle = UnsetStyle

\* C11: for every slideDirection value, an unrecognised one included, the
\* swipe callbacks agree with the transform of the closed panel: where the
\* closed panel is moved off the screen to the left (x = -100%), onSwipeLeft
\* is closeMenu; where it is moved off to the right (x = 100%), onSwipeRight
\* is closeMenu.
C11_SwipeAgreesWithTransform ==
    \A d \in mounted :
        LET closed == resolveSlideDirection(slideDirection[d], FALSE)
        IN  /\ closed[1] = "-100%" =>
                   onSwipeLeft(slideDirection[d]) = "closeMenu"
            /\ closed[1] = "100%" =>
                   onSwipeRight(slideDirection[d]) = "closeMenu"

\* the inline styles of documentElement once a cleanup has released the lock
ReleasedStyle ==
    [overflow |-> "auto", position |-> "static", top |-> "auto",
     bottom |-> "auto", left |-> "auto"]

\* C12: window.scrollTo is called only in an effect run with the lock flag
\* false, after the cleanup of the previous run has released the lock
\* (position 'static', overflow 'auto'), never while position is 'fixed',
\* and exactly once per open-then-close cycle: once since the last run that
\* locked when the close has settled, not at all while locked.
C12_RestoreAfterRelease ==
    /\ scrollToArg # Null <=> \E d \in mounted : effectRun[d] = "unlock"
    /\ scrollToArg # Null <=> scrollToStyle # Null
    /\ scrollToStyle # Null =>
           /\ scrollToStyle[1] = ReleasedStyle
           /\ scrollToStyle[1].position # "fixed"
    /\ \A d \in mounted :
           /\ scrollToCalls[d] <= 1
           /\ effectRun[d] = "unlock" => scrollToCalls[d] = 1
           /\ Settled(d) /\ isLocked[d] => scrollToCalls[d] = 0
           /\ Settled(d) /\ ~isLocked[d] /\ openCalled[d] =>
                  scrollToCalls[d] = 1

\* the close of an open-then-close cycle restores the offset
C12_Witness ==
    /\ effectRun[1] = "unlock"
    /\ scrollToStyle = Some(ReleasedStyle)
    /\ scrollToCalls[1] = 1
    /\ lastRequest[1] = "close"
    /\ docStyle.position = "static"

\* a step in which openMenu is called on d while d is open and its effect
\* has locked the page
OpenWhileLocked(d) ==
    /\ Settled(d)
    /\ isMenuOpen[d]
    /\ isLocked[d]
    /\ lockedScrollPosition[d] # Null
    /\ lastEvent'.drawer = d
    /\ lastEvent'.call = "open"

\* C13: openMenu on a drawer that is open and locked does not run or
\* schedule the scroll-lock effect, calls no window.scrollTo, and leaves the
\* recorded offset, the styles of documentElement and the width of
\* document.body as they are; the drawer stays open and locked, the
\* transitioning flag is true and a timer of the full delay is pending.
C13_OpenWhileLockedStep ==
    \A d \in AllDrawers :
        OpenWhileLocked(d) =>
            /\ effectRun'[d] = "none"
            /\ effectPending' = effectPending
            /\ scrollToArg' = Null
            /\ lockedScrollPosition' = lockedScrollPosition
            /\ docStyle' = docStyle
            /\ bodyWidth' = bodyWidth
            /\ pageYOffset' = pageYOffset
            /\ isMenuOpen' = isMenuOpen
            /\ isLocked' = isLocked
            /\ hasBeenOpened' = hasBeenOpened
            /\ initialized' = initialized
            /\ cleanup' = cleanup
            /\ isMenuTransitioning'[d]
            /\ timers' # <<>>
            /\ timers'[Len(timers')] =
                   [drawer |-> d, remaining |-> TransitionMs]

C13_OpenIdempotentForLock == [][C13_OpenWhileLockedStep]_vars

\* openMenu was called on the open and locked drawer after its transition
\* had ended: the page is as the lock run left it
C13_Witness ==
    /\ lastEvent.name = "openIconClick"
    /\ lastEvent.call = "open"
    /\ effectRun[1] = "none"
    /\ Settled(1)
    /\ lockedScrollPosition[1] # Null
    /\ PageLocked
    /\ isMenuTransitioning[1]
    /\ Len(timers) = 1
    /\ lockReadOffset[1] = Some(1)

\* C14: with two Drawers on the page, in every state where the effects of
\* both have run, documentElement is locked (overflow 'hidden', position
\* 'fixed') if one of them is open.
C14_LockedWhileAnyOpen ==
    (\A d \in mounted : Settled(d)) /\ (\E d \in mounted : isMenuOpen[d])
        => PageLocked

\* C15: once a drawer that has been opened is unmounted, open or closed,
\* the cleanup has released the lock: overflow, top, bottom and left of
\* documentElement are 'auto', position is 'static' and the width of
\* document.body is 'auto'.
C15_UnmountReleases ==
    \A d \in AllDrawers \ mounted :
        hasBeenOpened[d] =>
            /\ docStyle.overflow = "auto"
            /\ docStyle.position = "static"
            /\ docStyle.top = "auto"
            /\ docStyle.bottom = "auto"
            /\ docStyle.left = "auto"
            /\ bodyWidth = "auto"

\* the drawer was unmounted while it was open and the page was locked
C15_Witness ==
    /\ lastEvent.name = "unmount"
    /\ 1 \notin mounted
    /\ isMenuOpen[1]
    /\ lockedScrollPosition[1] # Null
    /\ effectRun[1] = "none"
    /\ docStyle = ReleasedStyle

\* C16: in every rendered state the overlay is visible, the swipe detector
\* is enabled and the panel has pointerEvents 'auto' exactly if isMenuOpen
\* is true; a closed drawer, which is any drawer whose last setMenuOpen call
\* was not an open, has pointerEvents 'none', an invisible overlay and a
\* disabled swipe detector.
C16_SurfacesFollowOpen ==
    \A d \in mounted :
        /\ overlayVisible(d) <=> isMenuOpen[d]
        /\ swipableEnabled(d) <=> isMenuOpen[d]
        /\ pointerEvents(d) = "auto" <=> isMenuOpen[d]
        /\ ~isMenuOpen[d] =>
               /\ pointerEvents(d) = "none"
               /\ ~overlayVisible(d)
               /\ ~swipableEnabled(d)
        /\ lastRequest[d] = "open" =>
               /\ pointerEvents(d) = "auto"
               /\ overlayVisible(d)
               /\ swipableEnabled(d)
        /\ lastRequest[d] # "open" =>
               /\ pointerEvents(d) = "none"
               /\ ~overlayVisible(d)
               /\ ~swipableEnabled(d)

\* the render after the close of a drawer that was open
C16_Witness ==
    /\ lastEvent.call = "close"
    /\ hasBeenOpened[1]
    /\ pointerEvents(1) = "none"
    /\ ~overlayVisible(1)
    /\ ~swipableEnabled(1)
    /\ transition(1) # "none"

====
